---- MODULE Spec2Model ----
(***************************************************************************)
(* Model of src/pbxproj/object/fs/mod.rs: PBXFSReference, the tree node of *)
(* an Xcode project (file reference, group, variant group, version group), *)
(* its child resolution through the shared object collection, the parent   *)
(* back-reference pass, the name/path lookups and structural equality.     *)
(*                                                                         *)
(* Option<T> is modelled as a sequence: <<>> is None, <<x>> is Some(x).    *)
(* Rc<RefCell<PBXFSReference>> identity is the identifier of the node in   *)
(* the collection; Weak<RefCell<..>> is that identifier, or 0 for an empty *)
(* Weak.  A HashSet<String> is modelled by the sequence of its elements in *)
(* the set's iteration order (no duplicates); it is compared as a set.     *)
(***************************************************************************)
EXTENDS Integers, Sequences, FiniteSets, TLC

VARIABLES
    objects,    \* the shared collection: identifier -> what `get` yields
    alive,      \* the collection still has a strong owner
    nodes,      \* identifier -> the PBXFSReference behind the Rc<RefCell<..>>
    borrow,     \* identifier -> RefCell borrow flag of the node
    stack,      \* activation records of assign_parent_to_children
    pc,         \* position of the caller
    call,       \* the call in progress or last made, and its outcome
    hist        \* values saved at call boundaries (history, not program state)

vars == <<objects, alive, nodes, borrow, stack, pc, call, hist>>

----------------------------------------------------------------------------
(* Bounds of the model *)

\* Number of identifiers, 1..NumIds.
NumIds == 3
\* Largest number of child identifiers over all nodes of a table.
MaxEdges == 3
\* Largest number of child identifiers of the node the lookups are made on.
MaxChildren == 2
\* Largest number of set_parent calls in a behaviour.
MaxSetParent == 1
\* Largest number of calls of assign_parent_to_children in a behaviour.
MaxCalls == 2
\* Largest number of attribute edits in a behaviour of the equality spec.
MaxEdits == 2

Ids == 1 .. NumIds
\* a Weak is empty (0) or points at a node
Handles == 0 .. NumIds

None == <<>>
Some(x) == <<x>>
is_none(o) == o = <<>>
is_some(o) == o # <<>>
unwrap(o) == o[1]

Range(s) == {s[i] : i \in 1 .. Len(s)}
NoDup(s) == \A i, j \in 1 .. Len(s) : i # j => s[i] # s[j]

Kinds == {"File", "Group", "VariantGroup", "VersionGroup"}
Names == {"Source", "Log.swift"}

----------------------------------------------------------------------------
(* PBXFSReference *)

\* #[derive(Default)]: every attribute None, empty Weak handles.
DefaultNode ==
    [ source_tree |-> None, path |-> None, name |-> None,
      include_in_index |-> None, uses_tabs |-> None, indent_width |-> None,
      tab_width |-> None, wraps_lines |-> None, kind |-> "Group",
      children_references |-> None, file_encoding |-> None,
      explicit_file_type |-> None, last_known_file_type |-> None,
      line_ending |-> None, language_specification_identifier |-> None,
      xc_language_specification_identifier |-> None,
      plist_structure_definition_identifier |-> None,
      current_version_reference |-> None, version_group_type |-> None,
      parent |-> 0, objects |-> 0 ]

is_file(n) == n.kind = "File"

is_group(n) == n.kind \in {"Group", "VariantGroup", "VersionGroup"}

\* self.objects.upgrade(): the node holds a handle and the collection lives
upgrade(n) == n.objects = 1 /\ alive

\* objects.get(r)?.as_pbxfs_reference()?: the record, if it is an FSReference
resolves(r) == r \in Ids /\ objects[r] = "FSReference"

\* the handle upgraded before anything else: a dead collection fails every call
children_panics_upgrade_first(n) == ~upgrade(n)

\* children() reaches .expect("Objects to valid reference") and it fails
children_panics(n) ==
    /\ ~(is_file(n) \/ is_none(n.children_references))
    /\ ~upgrade(n)

\* children() without the is_file() test
children_of_any_kind(n) ==
    IF is_none(n.children_references)
    THEN <<>>
    ELSE SelectSeq(unwrap(n.children_references), resolves)

\* children(): the resolved children in the set's iteration order
children(n) ==
    IF is_file(n) \/ is_none(n.children_references)
    THEN <<>>
    ELSE SelectSeq(unwrap(n.children_references), resolves)

----------------------------------------------------------------------------
(* Structural equality: impl PartialEq for PBXFSReference *)

\* Option<HashSet<String>> == : both absent, or both present with the same
\* elements whatever the iteration order
hashset_eq(x, y) ==
    IF is_none(x) \/ is_none(y) THEN x = y
    ELSE Range(unwrap(x)) = Range(unwrap(y))

\* eq with the comparison of line_ending left out
eq_without_line_ending(a, b) ==
    /\ a.kind = b.kind
    /\ a.source_tree = b.source_tree
    /\ a.path = b.path
    /\ a.name = b.name
    /\ hashset_eq(a.children_references, b.children_references)
    /\ a.current_version_reference = b.current_version_reference
    /\ a.version_group_type = b.version_group_type
    /\ a.include_in_index = b.include_in_index
    /\ a.uses_tabs = b.uses_tabs
    /\ a.indent_width = b.indent_width
    /\ a.tab_width = b.tab_width
    /\ a.wraps_lines = b.wraps_lines
    /\ a.file_encoding = b.file_encoding
    /\ a.explicit_file_type = b.explicit_file_type
    /\ a.last_known_file_type = b.last_known_file_type
    /\ a.language_specification_identifier = b.language_specification_identifier
    /\ a.xc_language_specification_identifier
          = b.xc_language_specification_identifier
    /\ a.plist_structure_definition_identifier
          = b.plist_structure_definition_identifier

eq(a, b) ==
    /\ a.kind = b.kind
    /\ a.source_tree = b.source_tree
    /\ a.path = b.path
    /\ a.name = b.name
    /\ hashset_eq(a.children_references, b.children_references)
    /\ a.current_version_reference = b.current_version_reference
    /\ a.version_group_type = b.version_group_type
    /\ a.include_in_index = b.include_in_index
    /\ a.uses_tabs = b.uses_tabs
    /\ a.indent_width = b.indent_width
    /\ a.tab_width = b.tab_width
    /\ a.wraps_lines = b.wraps_lines
    /\ a.file_encoding = b.file_encoding
    /\ a.explicit_file_type = b.explicit_file_type
    /\ a.last_known_file_type = b.last_known_file_type
    /\ a.line_ending = b.line_ending
    /\ a.language_specification_identifier = b.language_specification_identifier
    /\ a.xc_language_specification_identifier
          = b.xc_language_specification_identifier
    /\ a.plist_structure_definition_identifier
          = b.plist_structure_definition_identifier

----------------------------------------------------------------------------
(* Tree resolution: get_subgroup, get_file *)

\* Iterator::find: the first element of s that passes the test (T holds the
\* elements that pass), if any
find(s, T) ==
    LET hits == {i \in 1 .. Len(s) : s[i] \in T}
    IN IF hits = {} THEN None
       ELSE Some(s[CHOOSE i \in hits : \A j \in hits : i <= j])

\* get_subgroup matching the way get_file does, name first
subgroup_match_name_first(group, name) ==
    IF is_some(group.name) THEN unwrap(group.name) = name
    ELSE IF is_some(group.path) THEN unwrap(group.path) = name
    ELSE FALSE

\* the closure of get_subgroup's find: path first, name only without a path
subgroup_match(group, name) ==
    IF is_some(group.path) THEN unwrap(group.path) = name
    ELSE IF is_some(group.name) THEN unwrap(group.name) = name
    ELSE FALSE

\* get_file matching the way get_subgroup does, path first
file_match_path_first(file, name) ==
    IF is_some(file.path) THEN unwrap(file.path) = name
    ELSE IF is_some(file.name) THEN unwrap(file.name) = name
    ELSE FALSE

\* the closure of get_file's find: name first, path only without a name
file_match(file, name) ==
    IF is_some(file.name) THEN unwrap(file.name) = name
    ELSE IF is_some(file.path) THEN unwrap(file.path) = name
    ELSE FALSE

\* get_subgroup does not reach children() on a file
get_subgroup_panics(n) == ~is_file(n) /\ children_panics(n)

get_subgroup(n, name) ==
    IF is_file(n) THEN None
    ELSE LET is_group_at(v) == is_group(nodes[v])
             groups == SelectSeq(children(n), is_group_at)
         IN find(groups, {v \in Ids : subgroup_match(nodes[v], name)})

\* get_file calls children() first
get_file_panics(n) == children_panics(n)

get_file(n, name) ==
    find(children(n), {o \in Ids : is_file(nodes[o]) /\ file_match(nodes[o], name)})

----------------------------------------------------------------------------
(* Parent linkage: assign_parent_to_children, set_parent, parent *)

NoCall == [op |-> "none", self |-> 0, name |-> "", outcome |-> "none", value |-> <<>>]

NoHist == [parent0 |-> [i \in Ids |-> 0], visited |-> {}, rerun |-> FALSE,
           nset |-> 0, nedit |-> 0, ncall |-> 0]

Free == 0        \* RefCell not borrowed
Shared == 1      \* RefCell borrowed by borrow()
Exclusive == 2   \* RefCell borrowed by borrow_mut()

Top == stack[Len(stack)]
Pop(s) == SubSeq(s, 1, Len(s) - 1)
Parents == [i \in Ids |-> nodes[i].parent]

\* parent(): self.parent.upgrade(), None for an empty Weak
parent(i) == IF nodes[i].parent = 0 THEN None ELSE Some(nodes[i].parent)

\* o.borrow() in place of o.borrow_mut(): only an exclusive borrow is refused
borrow_mut_ok_shared(flag) == flag # Exclusive

\* o.borrow_mut() succeeds only on a RefCell nobody has borrowed
borrow_mut_ok(flag) == flag = Free

\* the child stamped with its own handle instead of the handle of its group
stamp_value_self(this, o) == o

\* fs_reference.parent = this.clone()
stamp_value(this, o) == this

\* the child replaced by a fresh node that carries the parent, instead of one
\* field of it being set
stamp_fresh(ns, o, this) == [ns EXCEPT ![o] = [DefaultNode EXCEPT !.parent = this]]

\* the write of the closure: only the parent field of the child o changes
stamp(ns, o, this) == [ns EXCEPT ![o].parent = stamp_value(this, o)]

\* the RefMut outlives the closure: the borrow flag stays as it is
release_leaked(flag) == flag

\* the closure ends, fs_reference (a RefMut) is dropped
release(flag) == Free

\* the recursion handed the parent the child had before it was stamped
recurse_handle_stale(this, o) == nodes[o].parent

\* the handle of the recursive call: Rc::downgrade(&o)
recurse_handle(this, o) == o

\* body of assign_parent_to_children up to the loop: the children still to
\* visit, none unless self is a group
todo_of(n) == IF is_group(n) THEN children(n) ELSE <<>>

\* is_group() holds and children() fails at .expect(..)
entry_panics(n) == is_group(n) /\ children_panics(n)

Frame(i, this) == [self |-> i, this |-> this, todo |-> todo_of(nodes[i])]

\* a panic unwinds: every RefMut/Ref guard on the way is dropped, what was
\* written stays written
Unwind(reason) ==
    /\ pc' = "panicked"
    /\ stack' = <<>>
    /\ borrow' = [i \in Ids |-> Free]
    /\ call' = [call EXCEPT !.outcome = reason]

\* The caller holds node p of the collection and nothing is borrowed; it
\* calls once, and may repeat the call on the same node.
CanCall(p) ==
    /\ resolves(p)
    /\ \/ pc = "idle"
       \/ pc = "returned" /\ call.self = p /\ hist.ncall < MaxCalls

\* caller: rc.borrow().assign_parent_to_children(Rc::downgrade(&rc))
Call(p) ==
    /\ CanCall(p)
    /\ ~entry_panics(nodes[p])
    /\ pc' = "running"
    /\ borrow' = [borrow EXCEPT ![p] = Shared]
    /\ stack' = <<Frame(p, p)>>
    /\ call' = [op |-> "assign_parent_to_children", self |-> p, name |-> "",
                outcome |-> "running", value |-> <<>>]
    /\ hist' = [hist EXCEPT !.parent0 = Parents, !.visited = {},
                            !.rerun = (pc = "returned" /\ call.self = p),
                            !.ncall = @ + 1]
    /\ UNCHANGED <<objects, alive, nodes>>

\* the same call when children() of the root fails
CallExpectFail(p) ==
    /\ CanCall(p)
    /\ entry_panics(nodes[p])
    /\ pc' = "panicked"
    /\ call' = [op |-> "assign_parent_to_children", self |-> p, name |-> "",
                outcome |-> "Objects to valid reference", value |-> <<>>]
    /\ hist' = [hist EXCEPT !.parent0 = Parents, !.visited = {}, !.rerun = FALSE,
                            !.ncall = @ + 1]
    /\ UNCHANGED <<objects, alive, nodes, borrow, stack>>

\* one turn of the for_each closure on the next child o: borrow_mut, stamp,
\* recurse; the recursion fails at once when children() of o fails
Stamp ==
    /\ pc = "running" /\ Top.todo # <<>>
    /\ LET o == Head(Top.todo)
       IN /\ borrow_mut_ok(borrow[o])
          /\ nodes' = stamp(nodes, o, Top.this)
          /\ hist' = [hist EXCEPT !.visited = @ \cup {o}]
          /\ IF entry_panics(nodes[o])
             THEN Unwind("Objects to valid reference")
             ELSE /\ borrow' = [borrow EXCEPT ![o] = Exclusive]
                  /\ stack' = Append(stack, Frame(o, recurse_handle(Top.this, o)))
                  /\ UNCHANGED <<pc, call>>
    /\ UNCHANGED <<objects, alive>>

\* o.borrow_mut() on a node that is already borrowed: BorrowMutError
BorrowFail ==
    /\ pc = "running" /\ Top.todo # <<>>
    /\ ~borrow_mut_ok(borrow[Head(Top.todo)])
    /\ Unwind("already borrowed")
    /\ UNCHANGED <<objects, alive, nodes, hist>>

\* the loop of one activation is over: its RefMut is dropped, the caller's
\* loop moves on; the outermost return ends the call
Return ==
    /\ pc = "running" /\ Top.todo = <<>>
    /\ borrow' = [borrow EXCEPT ![Top.self] = release(@)]
    /\ IF Len(stack) = 1
       THEN /\ stack' = <<>>
            /\ pc' = "returned"
            /\ call' = [call EXCEPT !.outcome = "returned"]
       ELSE /\ stack' = [Pop(stack) EXCEPT ![Len(stack) - 1].todo = Tail(@)]
            /\ UNCHANGED <<pc, call>>
    /\ UNCHANGED <<objects, alive, nodes, hist>>

\* set_parent(parent) on node i
set_parent(i, h) ==
    /\ pc = "idle"
    /\ resolves(i)
    /\ hist.nset < MaxSetParent
    /\ nodes' = [nodes EXCEPT ![i].parent = h]
    /\ pc' = "idle"
    /\ call' = NoCall
    /\ hist' = [hist EXCEPT !.nset = @ + 1]
    /\ UNCHANGED <<objects, alive, borrow, stack>>

\* the owner of the collection drops it; the nodes the caller holds survive
DropCollection ==
    /\ pc = "idle"
    /\ alive
    /\ alive' = FALSE
    /\ call' = NoCall
    /\ UNCHANGED <<objects, nodes, borrow, stack, pc, hist>>

\* The caller reads through rc.borrow(): children(), get_subgroup(name),
\* get_file(name) or parent() on node p.  A shared borrow never fails while
\* nothing is mutably borrowed, which is the case between calls.
Outcome(panics, v) ==
    IF panics THEN [outcome |-> "Objects to valid reference", value |-> <<>>]
    ELSE [outcome |-> "returned", value |-> v]

Result(op, n, name) ==
    CASE op = "children" -> Outcome(children_panics(n), children(n))
      [] op = "get_subgroup" -> Outcome(get_subgroup_panics(n), get_subgroup(n, name))
      [] op = "get_file" -> Outcome(get_file_panics(n), get_file(n, name))

Lookup(op, p, name) ==
    /\ pc = "idle" /\ call = NoCall
    /\ resolves(p)
    /\ LET r == Result(op, nodes[p], name)
       IN call' = [op |-> op, self |-> p, name |-> name,
                   outcome |-> r.outcome, value |-> r.value]
    /\ UNCHANGED <<objects, alive, nodes, borrow, stack, pc, hist>>

GetParent(p) ==
    /\ pc = "idle" /\ call = NoCall
    /\ resolves(p)
    /\ call' = [op |-> "parent", self |-> p, name |-> "",
                outcome |-> "returned", value |-> parent(p)]
    /\ UNCHANGED <<objects, alive, nodes, borrow, stack, pc, hist>>

----------------------------------------------------------------------------
(* The tables the reader can build *)

\* the iteration orders of the HashSets over identifiers, up to n elements
IdSeqs(n) == UNION {{s \in [1 .. k -> Ids] : NoDup(s)} : k \in 0 .. n}

RECURSIVE SumLen(_, _)
SumLen(f, S) ==
    IF S = {} THEN 0
    ELSE LET i == CHOOSE x \in S : TRUE
         IN Len(f[i]) + SumLen(f, S \ {i})

\* the kinds of node i in the linkage tables: a file, or a group of the
\* group kind that falls to i (all three group kinds occur in a table)
GroupKindOf(i) == <<"Group", "VariantGroup", "VersionGroup">>[(i % 3) + 1]
LinkKinds(i) == {"File", GroupKindOf(i)}

\* what a record of the collection that is no PBXFSReference leaves behind
NodeOf(present, k, c) ==
    IF present
    THEN [DefaultNode EXCEPT !.kind = k, !.objects = 1,
                             !.children_references = IF c = <<>> THEN None ELSE Some(c)]
    ELSE DefaultNode

\* a table of groups and files as the reader leaves it: every FSReference
\* holds the handle of the collection, no parent is set yet; the child
\* identifiers form any graph (trees, shared children, cycles), the last
\* identifier may be dangling or name a record of another kind
Init ==
    /\ objects \in [Ids -> {"FSReference", "Other", "Missing"}]
    /\ \A i \in Ids : i < NumIds => objects[i] = "FSReference"
    /\ alive = TRUE
    /\ \E c \in [Ids -> IdSeqs(MaxEdges)] :
          /\ SumLen(c, Ids) <= MaxEdges
          /\ \A i \in Ids : objects[i] # "FSReference" => c[i] = <<>>
          /\ \E k \in [Ids -> Kinds] :
                /\ \A i \in Ids : k[i] \in LinkKinds(i)
                /\ \A i \in Ids : objects[i] # "FSReference" => k[i] = "File"
                /\ nodes = [i \in Ids |-> NodeOf(objects[i] = "FSReference", k[i], c[i])]
    /\ borrow = [i \in Ids |-> Free]
    /\ stack = <<>>
    /\ pc = "idle"
    /\ call = NoCall
    /\ hist = NoHist

Next ==
    \/ \E p \in Ids : Call(p)
    \/ Stamp
    \/ BorrowFail
    \/ Return
    \/ \E i \in Ids, h \in Handles : set_parent(i, h)
    \/ \E p \in Ids : Lookup("children", p, "")
    \/ \E p \in Ids : Lookup("get_subgroup", p, "Source")
    \/ \E p \in Ids : Lookup("get_file", p, "Source")
    \/ \E p \in Ids : GetParent(p)

Spec == Init /\ [][Next]_vars

\* the attributes a lookup compares: absent, or one of the names
OptNames == {None} \cup {Some(x) : x \in Names}

\* the tables of the lookups: identifier 1 is the node the caller holds, of
\* any kind, its child identifiers absent or any set over the identifiers
\* (itself included) in any order; the other identifiers are dangling, name
\* a record of another kind, or a file or group with any path and name
InitLookup ==
    /\ objects \in [Ids -> {"FSReference", "Other", "Missing"}]
    /\ objects[1] = "FSReference"
    /\ alive = TRUE
    /\ \E k \in [Ids -> Kinds], pa \in [Ids -> OptNames], na \in [Ids -> OptNames],
          c \in {None} \cup {Some(x) : x \in IdSeqs(MaxChildren)} :
          /\ \A i \in Ids : k[i] \in LinkKinds(i)
          /\ \A i \in Ids : (objects[i] # "FSReference" \/ i = 1) =>
                                pa[i] = None /\ na[i] = None
          /\ \A i \in Ids : objects[i] # "FSReference" => k[i] = "File"
          /\ nodes = [i \in Ids |->
                        IF objects[i] = "FSReference"
                        THEN [DefaultNode EXCEPT !.kind = k[i], !.objects = 1,
                                 !.path = pa[i], !.name = na[i],
                                 !.children_references = IF i = 1 THEN c ELSE None]
                        ELSE DefaultNode]
    /\ borrow = [i \in Ids |-> Free]
    /\ stack = <<>>
    /\ pc = "idle"
    /\ call = NoCall
    /\ hist = NoHist

NextLookup ==
    \/ \E p \in Ids : Lookup("children", p, "")
    \/ \E p \in Ids, name \in Names : Lookup("get_subgroup", p, name)
    \/ \E p \in Ids, name \in Names : Lookup("get_file", p, name)
    \/ \E p \in Ids : Call(p)
    \/ \E p \in Ids : CallExpectFail(p)
    \/ Stamp
    \/ BorrowFail
    \/ Return
    \/ DropCollection

SpecLookup == InitLookup /\ [][NextLookup]_vars

\* the values the setters of the attributes are called with
AttrValues ==
    [ source_tree |-> {Some("SourceRoot")},
      path |-> {Some(x) : x \in Names},
      name |-> {Some(x) : x \in Names},
      include_in_index |-> {Some(TRUE)},
      uses_tabs |-> {Some(TRUE)},
      indent_width |-> {Some(4)},
      tab_width |-> {Some(4)},
      wraps_lines |-> {Some(TRUE)},
      kind |-> Kinds,
      children_references |-> {Some(<<>>), Some(<<1, 2>>), Some(<<2, 1>>), Some(<<2>>)},
      file_encoding |-> {Some(4)},
      explicit_file_type |-> {Some("sourcecode.swift")},
      last_known_file_type |-> {Some("sourcecode.swift")},
      line_ending |-> {Some(0)},
      language_specification_identifier |-> {Some("xcode.lang.swift")},
      xc_language_specification_identifier |-> {Some("xcode.lang.swift")},
      plist_structure_definition_identifier |-> {Some("com.apple.plist")},
      current_version_reference |-> {Some("2")},
      version_group_type |-> {Some("wrapper.xcdatamodel")} ]

\* a setter of attribute f on node i
set_attr(i, f, v) ==
    /\ pc = "idle"
    /\ hist.nedit < MaxEdits
    /\ nodes[i][f] # v
    /\ nodes' = [nodes EXCEPT ![i] = [@ EXCEPT ![f] = v]]
    /\ call' = NoCall
    /\ hist' = [hist EXCEPT !.nedit = @ + 1]
    /\ UNCHANGED <<objects, alive, borrow, stack, pc>>

\* nodes that start alike (groups without attributes; the first one was never
\* given the handle of the collection) and are then edited; one call of
\* assign_parent_to_children is made
InitEq ==
    /\ objects = [i \in Ids |-> "FSReference"]
    /\ alive = TRUE
    /\ nodes = [i \in Ids |-> [DefaultNode EXCEPT !.objects = IF i = 1 THEN 0 ELSE 1]]
    /\ borrow = [i \in Ids |-> Free]
    /\ stack = <<>>
    /\ pc = "idle"
    /\ call = NoCall
    /\ hist = [NoHist EXCEPT !.ncall = MaxCalls - 1]

NextEq ==
    \/ \E i \in Ids, f \in DOMAIN AttrValues : \E v \in AttrValues[f] : set_attr(i, f, v)
    \/ \E i \in Ids, h \in Handles : set_parent(i, h)
    \/ \E p \in Ids : Call(p)
    \/ \E p \in Ids : CallExpectFail(p)
    \/ Stamp
    \/ BorrowFail
    \/ Return

SpecEq == InitEq /\ [][NextEq]_vars

\* a call that has started runs on: the code is synchronous and has no
\* suspension point
FairSpec == Spec /\ WF_vars(Stamp \/ BorrowFail \/ Return)

----------------------------------------------------------------------------
(* The child-identifier graph of a table *)

GroupKinds == {"Group", "VariantGroup", "VersionGroup"}
IsRecord(i) == objects[i] = "FSReference"
GroupLike(i) == IsRecord(i) /\ nodes[i].kind \in GroupKinds

\* childIdentifiers of node i as a set (empty when absent)
ListedBy(i) ==
    IF IsRecord(i) /\ nodes[i].children_references # <<>>
    THEN Range(nodes[i].children_references[1])
    ELSE {}

\* the identifiers of i that the collection maps to an FSReference record
ResolvedOf(i) == {c \in ListedBy(i) : IsRecord(c)}

\* every child-identifier step, and the steps a traversal takes (through
\* resolved children of group-like nodes)
RawGraph == [i \in Ids |-> ListedBy(i)]
WalkGraph == [i \in Ids |-> IF GroupLike(i) THEN ResolvedOf(i) ELSE {}]

RECURSIVE Grow(_, _, _)
Grow(g, S, n) ==
    IF n = 0 THEN S ELSE Grow(g, S \cup UNION {g[i] : i \in S}, n - 1)

\* the nodes reachable from p by one or more steps of g
Desc(g, p) == Grow(g, g[p], NumIds)

Acyclic == \A i \in Ids : i \notin Desc(RawGraph, i)
Walked(p) == {p} \cup Desc(WalkGraph, p)
WalkCyclicFrom(p) == \E i \in Walked(p) : i \in Desc(WalkGraph, i)

Assigned == call.op = "assign_parent_to_children"
Root == call.self

----------------------------------------------------------------------------
(* Properties *)

\* C1 as stated: after assign_parent_to_children(handle to p) has completed
\* on a group-like p of an acyclic table, for p and every group-like q
\* reachable from p through child identifiers, every identifier of q that
\* resolves to a record c has c.parent() identical to q.
C1_AsStated ==
    (pc = "returned" /\ Assigned /\ GroupLike(Root) /\ Acyclic /\ alive) =>
        \A q \in {Root} \cup Desc(RawGraph, Root) :
            GroupLike(q) => \A c \in ResolvedOf(q) : parent(c) = Some(q)

\* a resolved child c of q that no other group-like node of the traversal lists
SoleParent(q, c, p) ==
    /\ c \in ResolvedOf(q)
    /\ \A q2 \in Walked(p) \ {q} : c \notin WalkGraph[q2]

\* C1 amended: the same for p and every group-like q the traversal reaches
\* (through the resolved children of group-like nodes), for every resolved
\* child c of q that no other such node lists: c.parent() is identical to q.
C1_ParentOfSoleChild ==
    (pc = "returned" /\ Assigned /\ GroupLike(Root) /\ Acyclic /\ alive) =>
        \A q \in Walked(Root) :
            GroupLike(q) =>
                \A c \in ResolvedOf(q) :
                    SoleParent(q, c, Root) => parent(c) = Some(q)

\* a grandchild that set_parent had pointed elsewhere now points at its group
C1_Witness ==
    /\ pc = "returned" /\ Assigned /\ GroupLike(Root) /\ Acyclic /\ alive
    /\ \E q \in Desc(WalkGraph, Root) : \E c \in ResolvedOf(q) :
          /\ q # Root /\ GroupLike(q) /\ SoleParent(q, c, Root)
          /\ hist.parent0[c] \notin {0, q}
          /\ parent(c) = Some(q)
          /\ \E d \in ResolvedOf(Root) : SoleParent(Root, d, Root)

\* C7: a second run of assign_parent_to_children on the same node of an
\* unmutated acyclic table leaves every parent back-reference as the first
\* run left it, whatever the iteration orders of the child identifier sets.
C7_Idempotent ==
    (pc = "returned" /\ Assigned /\ hist.rerun /\ Acyclic) =>
        Parents = hist.parent0

\* a second run over a child that two groups of the traversal list, where
\* the outcome depends on the iteration order
C7_Witness ==
    /\ pc = "returned" /\ Assigned /\ hist.rerun /\ Acyclic
    /\ Parents = hist.parent0
    /\ \E q1, q2 \in Walked(Root), c \in Ids :
          /\ q1 # q2 /\ c \in WalkGraph[q1] /\ c \in WalkGraph[q2]
          /\ parent(c) = Some(q1)

\* what C8 says of each state: without a cycle and with the collection
\* alive the call never aborts, a call that returned has visited exactly the
\* nodes its traversal reaches from self, and a call on a File has a single
\* activation with nothing to visit
C8_Safe ==
    /\ (Assigned /\ Acyclic /\ alive) => pc # "panicked"
    /\ (pc = "returned" /\ Assigned /\ Acyclic /\ alive) =>
          hist.visited = Desc(WalkGraph, Root)
    /\ (pc = "running" /\ ~GroupLike(Root)) =>
          /\ Len(stack) = 1 /\ Top.todo = <<>> /\ hist.visited = {}

\* C8: on a table without a cycle, with the collection alive,
\* assign_parent_to_children terminates normally (it never aborts and every
\* call returns) after visiting each node its traversal reaches from self,
\* and on a File it returns at once without visiting anything.
C8_Terminates ==
    /\ []C8_Safe
    /\ (pc = "running" /\ Acyclic /\ alive) ~> (pc = "returned")

\* a run over two levels that returned
C8_Witness ==
    /\ pc = "returned" /\ Assigned /\ Acyclic /\ alive
    /\ \E q \in Desc(WalkGraph, Root) : WalkGraph[q] # {}
    /\ hist.visited = Desc(WalkGraph, Root)

\* every attribute of a node but its parent back-reference
Content(n) == [n EXCEPT !.parent = 0]

IsLookup(c) == c.op \in {"children", "get_subgroup", "get_file", "parent"}

\* C9: a step of assign_parent_to_children writes nothing but the parent
\* back-reference of nodes its traversal reaches from p in one or more steps
\* (so not p itself unless p is its own descendant, and no other node); the
\* collection, kinds, attributes and child identifiers never change; and
\* children(), get_subgroup, get_file and parent() change no state.
C9_Step ==
    /\ objects' = objects /\ alive' = alive
    /\ \A i \in Ids : Content(nodes'[i]) = Content(nodes[i])
    /\ (pc = "running" \/ pc' = "running") =>
          \A i \in Ids :
              nodes'[i].parent # nodes[i].parent => i \in Desc(WalkGraph, Root')
    /\ (IsLookup(call') /\ call' # call) =>
          /\ nodes' = nodes /\ borrow' = borrow /\ stack' = stack

C9_Frame == [][C9_Step]_vars

\* a run that restamped a descendant and left a node outside the traversal,
\* whose parent set_parent had set, as it was
C9_Witness ==
    /\ pc = "returned" /\ Assigned
    /\ \E i \in Ids \ Desc(WalkGraph, Root) :
          IsRecord(i) /\ hist.parent0[i] # 0 /\ nodes[i].parent = hist.parent0[i]
    /\ \E j \in Desc(WalkGraph, Root) : nodes[j].parent # hist.parent0[j]

\* the nodes with an activation on the recursion stack
OnPath == {stack[k].self : k \in 1 .. Len(stack)}

\* what C10 says of each state: the nodes of the recursion path are distinct
\* and borrowed (the root shared by the caller, the others exclusively)
\* while their subtrees are processed; a call over a cycle of group-like
\* nodes never returns normally and a call aborts only on reaching a node of
\* its path; after the abort every stamped node keeps a parent it was given
\* and every other node the parent it had
C10_Safe ==
    /\ pc = "running" =>
          /\ borrow[stack[1].self] = Shared
          /\ \A k \in 2 .. Len(stack) : borrow[stack[k].self] = Exclusive
          /\ \A j, k \in 1 .. Len(stack) : j # k => stack[j].self # stack[k].self
          /\ \A i \in Ids \ OnPath : borrow[i] = Free
    /\ (Assigned /\ WalkCyclicFrom(Root)) => pc # "returned"
    /\ pc = "panicked" =>
          /\ call.outcome = "already borrowed"
          /\ WalkCyclicFrom(Root)
          /\ \A i \in hist.visited :
                nodes[i].parent \in {q \in Walked(Root) : i \in WalkGraph[q]}
          /\ \A i \in Ids \ hist.visited : nodes[i].parent = hist.parent0[i]

\* C10: over a cycle of child identifiers assign_parent_to_children does not
\* recurse forever: every call ends, the nodes of the recursion path being
\* held borrowed, so that the first attempt to stamp a node of the path (or
\* the borrowed root) aborts the call and leaves the parents written so far.
C10_CycleAborts ==
    /\ []C10_Safe
    /\ (pc = "running") ~> (pc \in {"returned", "panicked"})

\* an abort on a cycle that had already stamped a node whose parent differs
\* from what it was before the call
C10_Witness ==
    /\ pc = "panicked" /\ call.outcome = "already borrowed"
    /\ \E i \in hist.visited : nodes[i].parent # hist.parent0[i]
    /\ Cardinality(hist.visited) >= 2

----------------------------------------------------------------------------
(* Properties of the lookups *)

Self == nodes[call.self]
Returned(op) == call.op = op /\ call.outcome = "returned"

\* the first entry of s that lies in T, as an optional value
FirstIn(s, T) ==
    IF \E i \in 1 .. Len(s) : s[i] \in T
    THEN Some(s[CHOOSE i \in 1 .. Len(s) :
                    s[i] \in T /\ \A j \in 1 .. i - 1 : s[j] \notin T])
    ELSE None

\* the children get_subgroup(name) may return: group-like, path equal to
\* name, or no path and name attribute equal to name
SubgroupWanted(name) ==
    {c \in Ids : /\ nodes[c].kind \in GroupKinds
                 /\ \/ nodes[c].path = Some(name)
                    \/ nodes[c].path = None /\ nodes[c].name = Some(name)}

\* C2: get_subgroup(name) returns the first node of children() that is
\* group-like and whose path equals name, or whose path is absent and whose
\* name attribute equals name; never a group whose path is present and
\* differs from name, never a File; not found when nothing matches or self
\* is a File.
C2_GetSubgroup ==
    /\ (alive /\ call.op = "get_subgroup") => call.outcome = "returned"
    /\ Returned("get_subgroup") =>
          /\ call.value = IF Self.kind = "File" THEN None
                          ELSE FirstIn(children(Self), SubgroupWanted(call.name))
          /\ call.value # None =>
                LET c == nodes[call.value[1]]
                IN /\ call.value[1] \in ResolvedOf(call.self)
                   /\ c.kind # "File"
                   /\ ~(c.path # None /\ c.path # Some(call.name))

\* found by its path behind an earlier group child whose name attribute
\* equals the name but whose path differs
C2_Witness ==
    /\ Returned("get_subgroup") /\ call.value # None
    /\ nodes[call.value[1]].path = Some(call.name)
    /\ nodes[call.value[1]].name \notin {None, Some(call.name)}
    /\ LET ch == children(Self)
       IN /\ Len(ch) = 2 /\ ch[2] = call.value[1]
          /\ nodes[ch[1]].kind \in GroupKinds
          /\ nodes[ch[1]].name = Some(call.name)
          /\ nodes[ch[1]].path \notin {None, Some(call.name)}

\* the children get_file(name) may return: File, name attribute equal to
\* name, or no name attribute and path equal to name
FileWanted(name) ==
    {c \in Ids : /\ nodes[c].kind = "File"
                 /\ \/ nodes[c].name = Some(name)
                    \/ nodes[c].name = None /\ nodes[c].path = Some(name)}

\* C3: get_file(name) returns the first node of children() that is a File
\* and whose name attribute equals name, or whose name attribute is absent
\* and whose path equals name; never a File whose name attribute is present
\* and differs from name, never a group; not found when nothing matches,
\* when the child identifiers are absent or when self is a File.
C3_GetFile ==
    /\ (alive /\ call.op = "get_file") => call.outcome = "returned"
    /\ Returned("get_file") =>
          /\ call.value = FirstIn(children(Self), FileWanted(call.name))
          /\ (Self.kind = "File" \/ Self.children_references = None) =>
                call.value = None
          /\ call.value # None =>
                LET c == nodes[call.value[1]]
                IN /\ call.value[1] \in ResolvedOf(call.self)
                   /\ c.kind = "File"
                   /\ ~(c.name # None /\ c.name # Some(call.name))

\* found by its name attribute behind an earlier File child whose path equals
\* the name but whose name attribute differs
C3_Witness ==
    /\ Returned("get_file") /\ call.value # None
    /\ nodes[call.value[1]].name = Some(call.name)
    /\ nodes[call.value[1]].path \notin {None, Some(call.name)}
    /\ LET ch == children(Self)
       IN /\ Len(ch) = 2 /\ ch[2] = call.value[1]
          /\ nodes[ch[1]].kind = "File"
          /\ nodes[ch[1]].path = Some(call.name)
          /\ nodes[ch[1]].name \notin {None, Some(call.name)}

\* C4: while the collection is alive children() never fails; it returns the
\* empty sequence on a File (child identifiers or not) and when the child
\* identifiers are absent, otherwise one entry, the shared node itself, for
\* each identifier the collection maps to an FSReference record, the other
\* identifiers being skipped.
C4_Children ==
    (alive /\ call.op = "children") =>
        /\ call.outcome = "returned"
        /\ NoDup(call.value)
        /\ Range(call.value) =
              IF Self.kind = "File" \/ Self.children_references = None
              THEN {}
              ELSE {c \in ListedBy(call.self) : objects[c] = "FSReference"}

\* one child resolved, one identifier skipped because it is dangling or
\* names a record of another kind
C4_Witness ==
    /\ alive /\ Returned("children")
    /\ Len(call.value) = 1
    /\ Cardinality(ListedBy(call.self)) = 2
    /\ \E c \in ListedBy(call.self) : objects[c] = "Other"

\* the operations that have called children() on the node of the call
CalledChildren ==
    \/ call.op \in {"children", "get_file"}
    \/ call.op = "get_subgroup" /\ Self.kind # "File"
    \/ Assigned /\ Self.kind \in GroupKinds

\* C5 as stated: a call of children(), directly or through get_subgroup,
\* get_file or assign_parent_to_children, on any node after the collection
\* is destroyed aborts; it never returns an empty sequence or not found.
C5_AsStated ==
    (~alive /\ CalledChildren) => call.outcome = "Objects to valid reference"

\* C5 amended: after the collection is destroyed such a call aborts with the
\* dangling-collection error exactly when the node is not a File and its
\* child identifiers are present (an empty set included); on a File, or with
\* the child identifiers absent, children() still returns the empty sequence
\* and the lookups still return not found.
C5_Teardown ==
    (~alive /\ CalledChildren) =>
        IF Self.kind # "File" /\ Self.children_references # None
        THEN call.outcome = "Objects to valid reference"
        ELSE /\ call.outcome \in {"running", "returned"}
             /\ call.value = <<>>

\* the abort on a group whose set of child identifiers is present but empty
C5_Witness ==
    /\ ~alive /\ call.op = "get_file"
    /\ Self.children_references = Some(<<>>)
    /\ call.outcome = "Objects to valid reference"

----------------------------------------------------------------------------
(* Properties of structural equality *)

\* the kind and the eighteen content attributes of a node, the child
\* identifiers as a set: everything but the parent and the collection handle
ContentOf(n) ==
    [ kind |-> n.kind, source_tree |-> n.source_tree, path |-> n.path,
      name |-> n.name, include_in_index |-> n.include_in_index,
      uses_tabs |-> n.uses_tabs, indent_width |-> n.indent_width,
      tab_width |-> n.tab_width, wraps_lines |-> n.wraps_lines,
      children_references |->
          IF n.children_references = None THEN None
          ELSE Some(Range(n.children_references[1])),
      file_encoding |-> n.file_encoding, line_ending |-> n.line_ending,
      explicit_file_type |-> n.explicit_file_type,
      last_known_file_type |-> n.last_known_file_type,
      language_specification_identifier |-> n.language_specification_identifier,
      xc_language_specification_identifier |-> n.xc_language_specification_identifier,
      plist_structure_definition_identifier |-> n.plist_structure_definition_identifier,
      current_version_reference |-> n.current_version_reference,
      version_group_type |-> n.version_group_type ]

\* C6: two nodes are structurally equal exactly when their kind and their
\* eighteen content attributes (the child identifiers as a set) are equal;
\* equality is reflexive, symmetric and transitive, and no value of the
\* parent back-references or collection handles, however set_parent or
\* assign_parent_to_children left them, changes it.
C6_Equality ==
    LET E == [i \in Ids |-> [j \in Ids |-> eq(nodes[i], nodes[j])]]
        K == [i \in Ids |-> ContentOf(nodes[i])]
    IN /\ \A i, j \in Ids : E[i][j] <=> K[i] = K[j]
       /\ \A i \in Ids : E[i][i]
       /\ \A i, j \in Ids : E[i][j] => E[j][i]
       /\ \A i, j, k \in Ids : (E[i][j] /\ E[j][k]) => E[i][k]

\* equal nodes whose child identifier sets iterate in different orders, one
\* of them stamped by assign_parent_to_children, with different collection
\* handles, beside a node that differs from both in one attribute only
C6_Witness ==
    /\ pc = "returned" /\ Assigned
    /\ \E i, j, k \in Ids :
          /\ eq(nodes[i], nodes[j]) /\ ~eq(nodes[i], nodes[k])
          /\ nodes[i].children_references # nodes[j].children_references
          /\ nodes[i].parent # nodes[j].parent
          /\ nodes[i].objects # nodes[j].objects

====
